---- MODULE Spec2Model ----
(***************************************************************************)
(* The analysis pipeline of autolysis.py: module start-up, the constructor *)
(* AutomatedAnalysis.__init__ (detect_encoding, load_dataset,              *)
(* preprocess_data, get_api_token) and run_analysis (get_data_summary,     *)
(* perform_clustering, generate_narrative, save_results).                  *)
(*                                                                         *)
(* A DataFrame is a record                                                 *)
(*   [cols, dtypes, data, nrows]                                           *)
(* with cols the column names in order, dtypes[i] the dtype of column i    *)
(* and data[i] its cells.  A cell is a record [k, n, s]: k is the kind     *)
(* ("nan", "num", "str", "dt", "nat"), n the number of a "num" cell and s  *)
(* the text of a "str" cell or the text a "dt" cell was parsed from.       *)
(* The numbers of the CSV files read are 0 and 4, so that every median     *)
(* the imputer fills in (the mean of two middle values) is an integer.     *)
(***************************************************************************)
EXTENDS Integers, Sequences, FiniteSets, TLC

\* Largest number of data rows of the tables read_csv may return.
MaxRows == 3

\* tenacity: stop_after_attempt(3)
StopAfterAttempt == 3

\* perform_clustering(self, n_clusters: int = 3)
DefaultK == 3

VARIABLES
    pc,                  \* the statement the process is about to run
    executed,            \* the methods that have run to completion, in order
    err,                 \* the exception that ended the run, or NoError
    networkCalls,        \* outbound requests made so far (probe and service)
    serviceCalls,        \* calls of openai.ChatCompletion.create so far
    serviceFailures,     \* how many of those calls failed
    encoding,            \* self.encoding
    df,                  \* self.df
    ingested,            \* the table load_dataset returned
    api_token,           \* self.api_token
    summary,             \* run_analysis: summary
    clustering_results,  \* run_analysis: clustering_results
    narrative,           \* run_analysis: narrative
    readme,              \* the sections written to <folder>/README.md
    saveLog              \* what save_results printed

vars == <<pc, executed, err, networkCalls, serviceCalls, serviceFailures,
          encoding, df, ingested, api_token, summary, clustering_results,
          narrative, readme, saveLog>>

----------------------------------------------------------------------------
\* Cells

NaN == [k |-> "nan", n |-> 0, s |-> ""]

NaT == [k |-> "nat", n |-> 0, s |-> ""]

Num(v) == [k |-> "num", n |-> v, s |-> ""]

Str(t) == [k |-> "str", n |-> 0, s |-> t]

Timestamp(v, t) == [k |-> "dt", n |-> v, s |-> t]

\* Series.isnull of one cell
IsNull(c) == c.k \in {"nan", "nat"}

\* The texts pandas can read as a date; every other text is unparseable.
ParseableDates == {"2021-01-01"}

\* The cells a numeric CSV column, a text CSV column and a "date" column hold.
NumberCells == {NaN, Num(0), Num(4)}

TextCells == {NaN, Str("x")}

DateCells == {NaN, Str("2021-01-01"), Str("n/a")}

----------------------------------------------------------------------------
\* DataFrames

NoDf == [cols |-> <<>>, dtypes |-> <<>>, data |-> <<>>, nrows |-> 0]

NumberDtypes == {"int64", "float64", "int32"}

\* The dtype read_csv infers for a column: object when there is no row or a
\* cell is text; otherwise float64 when a cell is missing, else int64.
InferDtype(cells) ==
    IF Len(cells) = 0 \/ \E i \in 1..Len(cells) : cells[i].k = "str"
    THEN "object"
    ELSE IF \E i \in 1..Len(cells) : cells[i].k = "nan"
         THEN "float64"
         ELSE "int64"

\* All sequences of length n over the set S.
SeqsOf(S, n) == [1..n -> S]

\* The cell sequences read_csv can produce for a column of that name.
ColumnCells(name, n) ==
    IF name = "date"
    THEN SeqsOf(DateCells, n)
    ELSE SeqsOf(NumberCells, n) \cup SeqsOf(TextCells, n)

\* The column names of the CSV files read.
Headers == {<<"date">>, <<"val">>, <<"date", "val">>}

MkDf(cols, data, n) ==
    [cols |-> cols,
     dtypes |-> [i \in 1..Len(cols) |-> InferDtype(data[i])],
     data |-> data,
     nrows |-> n]

\* The tables read_csv returns: a header and 0..MaxRows rows that parse.
Tables ==
    UNION {
        UNION {
            {MkDf(cols, data, n) :
                data \in {d \in [1..Len(cols) -> ColumnCells("date", n)
                                                  \cup ColumnCells("val", n)] :
                            \A i \in 1..Len(cols) :
                                d[i] \in ColumnCells(cols[i], n)}}
            : cols \in Headers}
        : n \in 0..MaxRows}

ColIndex(d, name) == CHOOSE i \in 1..Len(d.cols) : d.cols[i] = name

HasCol(d, name) == \E i \in 1..Len(d.cols) : d.cols[i] = name

ColSet(d) == {d.cols[i] : i \in 1..Len(d.cols)}

\* df.select_dtypes(include=['object']).columns, as column positions
ObjectCols(d) == {i \in 1..Len(d.cols) : d.dtypes[i] = "object"}

\* df.select_dtypes(include=[np.number]).columns, as column positions
NumericCols(d) == {i \in 1..Len(d.cols) : d.dtypes[i] \in NumberDtypes}

----------------------------------------------------------------------------
\* preprocess_data

\* to_datetime that reads only text: a value that is already a Timestamp is
\* coerced to NaT.
ToDatetimeTextOnly(c) ==
    CASE c.k = "str" -> IF c.s \in ParseableDates THEN Timestamp(0, c.s) ELSE NaT
      [] c.k = "num" -> Timestamp(c.n, "")
      [] OTHER       -> NaT

\* pd.to_datetime(..., errors='coerce') of one cell
ToDatetime(c) ==
    CASE c.k = "str" -> IF c.s \in ParseableDates THEN Timestamp(0, c.s) ELSE NaT
      [] c.k = "num" -> Timestamp(c.n, "")
      [] c.k = "dt"  -> c
      [] OTHER       -> NaT

\* self.df['date'] = pd.to_datetime(self.df['date'], errors='coerce')
ParseDateColumn(d) ==
    IF HasCol(d, "date")
    THEN LET j == ColIndex(d, "date")
         IN [d EXCEPT !.dtypes[j] = "datetime64[ns]",
                      !.data[j] = [r \in 1..d.nrows |-> ToDatetime(d.data[j][r])]]
    ELSE d

\* fillna whose result is dropped: the cell is left as it was.
FillNaDropped(c, value) == c

\* Series.fillna(value) of one cell
FillNa(c, value) == IF IsNull(c) THEN value ELSE c

\* self.df[categorical_cols] = self.df[categorical_cols].fillna('Unknown')
FillCategorical(d) ==
    [d EXCEPT !.data = [i \in 1..Len(d.cols) |->
        IF i \in ObjectCols(d)
        THEN [r \in 1..d.nrows |-> FillNa(d.data[i][r], Str("Unknown"))]
        ELSE d.data[i]]]

\* The non-missing numbers of a column, as a sequence.
Present(cells) == SelectSeq(cells, LAMBDA c : c.k = "num")

\* The k-th smallest number of a non-empty sequence of "num" cells.
KthSmallest(cells, k) ==
    LET vals == {cells[i].n : i \in 1..Len(cells)}
        Below(v) == Cardinality({i \in 1..Len(cells) : cells[i].n < v})
        UpTo(v) == Cardinality({i \in 1..Len(cells) : cells[i].n <= v})
    IN CHOOSE v \in vals : Below(v) < k /\ k <= UpTo(v)

\* numpy's median of a non-empty sequence of "num" cells: the middle value,
\* or the mean of the two middle values.
Median(cells) ==
    LET m == Len(cells)
    IN IF m % 2 = 1
       THEN KthSmallest(cells, (m + 1) \div 2)
       ELSE (KthSmallest(cells, m \div 2) + KthSmallest(cells, m \div 2 + 1)) \div 2

\* SimpleImputer(strategy='median').fit_transform on the numeric columns and
\* the assignment of its result to self.df[numeric_cols].  fit_transform
\* raises when it is given no column; it drops a column with no observed
\* value, and the assignment of fewer columns than keys raises.
ImputeNumeric(d) ==
    LET numeric == NumericCols(d)
        empty == {i \in numeric : Len(Present(d.data[i])) = 0}
    IN IF numeric = {} \/ empty # {}
       THEN [raised |-> TRUE, df |-> d]
       ELSE [raised |-> FALSE,
             df |-> [d EXCEPT
                !.dtypes = [i \in 1..Len(d.cols) |->
                    IF i \in numeric THEN "float64" ELSE d.dtypes[i]],
                !.data = [i \in 1..Len(d.cols) |->
                    IF i \in numeric
                    THEN [r \in 1..d.nrows |->
                            FillNa(d.data[i][r], Num(Median(Present(d.data[i]))))]
                    ELSE d.data[i]]]]

\* preprocess_data as a function of self.df: whether it raised, and self.df
\* when it returned or raised.
preprocess_data(d) == ImputeNumeric(FillCategorical(ParseDateColumn(d)))

----------------------------------------------------------------------------
\* get_data_summary

\* The sum of the numbers of a sequence of "num" cells.
RECURSIVE SumCells(_)
SumCells(cells) ==
    IF Len(cells) = 0 THEN 0 ELSE Head(cells).n + SumCells(Tail(cells))

\* df.describe() of one numeric column: count, mean (as sum / count), min,
\* 50% and max of its non-missing values.  std and the 25% and 75% quartiles
\* are not integers and are left out.
Describe(cells) ==
    LET p == Present(cells)
    IN [count |-> Len(p),
        sum |-> SumCells(p),
        min |-> IF Len(p) = 0 THEN 0 ELSE KthSmallest(p, 1),
        median |-> IF Len(p) = 0 THEN 0 ELSE Median(p),
        max |-> IF Len(p) = 0 THEN 0 ELSE KthSmallest(p, Len(p))]

\* get_data_summary as a function of self.df; the dicts are functions on
\* the column names.
get_data_summary(d) ==
    [total_rows |-> d.nrows,
     total_columns |-> Len(d.cols),
     column_types |-> [c \in ColSet(d) |-> d.dtypes[ColIndex(d, c)]],
     missing_values |-> [c \in ColSet(d) |->
        Cardinality({r \in 1..d.nrows : IsNull(d.data[ColIndex(d, c)][r])})],
     numeric_summary |-> [c \in {d.cols[i] : i \in NumericCols(d)} |->
        Describe(d.data[ColIndex(d, c)])]]

----------------------------------------------------------------------------
\* perform_clustering

\* The numeric columns in column order: the features.
RECURSIVE SortedSeq(_)
SortedSeq(S) ==
    IF S = {} THEN <<>>
    ELSE LET m == CHOOSE x \in S : \A y \in S : x <= y
         IN <<m>> \o SortedSeq(S \ {m})

RECURSIVE SumOver(_, _)
SumOver(f, S) ==
    IF S = {} THEN 0
    ELSE LET x == CHOOSE y \in S : TRUE IN f[x] + SumOver(f, S \ {x})

RECURSIVE ProdOver(_, _)
ProdOver(f, S) ==
    IF S = {} THEN 1
    ELSE LET x == CHOOSE y \in S : TRUE IN f[x] * ProdOver(f, S \ {x})

\* StandardScaler.fit: for each feature, n^2 times its variance, with a zero
\* variance replaced so that the scale is 1 (sklearn leaves a constant
\* feature unscaled).  The scaled value of x is n * (x - mean) / sqrt(Weight).
Weight(d, feats) ==
    [c \in feats |->
        LET x == [r \in 1..d.nrows |-> d.data[c][r].n]
            s == SumOver(x, 1..d.nrows)
            q == SumOver([r \in 1..d.nrows |-> x[r] * x[r]], 1..d.nrows)
            v == d.nrows * q - s * s
        IN IF v = 0 THEN d.nrows * d.nrows ELSE v]

\* A centre is the mean of the scaled rows of a non-empty set J of rows.
\* With w the weights, the squared distance in scaled space between row r
\* and that centre is
\*   n^2 * DistNum(d, feats, w, r, J) / (|J|^2 * product of the weights).
DistNum(d, feats, w, r, J) ==
    LET m == Cardinality(J)
    IN SumOver([c \in feats |->
            LET s == SumOver([j \in J |-> d.data[c][j].n], J)
                t == m * d.data[c][r].n - s
            IN t * t * ProdOver(w, feats \ {c})], feats)

\* The assignment step: each row goes to its nearest centre, the lowest
\* index winning a tie (argmin).  Labels are 0-based.  Centre j is no
\* farther from row r than centre i when
\*   DistNum(r, j) * |i|^2 <= DistNum(r, i) * |j|^2.
Assign(d, feats, w, centres) ==
    LET k == Len(centres)
        sq == [j \in 1..k |-> Cardinality(centres[j]) * Cardinality(centres[j])]
    IN [r \in 1..d.nrows |->
        LET num == [j \in 1..k |-> DistNum(d, feats, w, r, centres[j])]
            NoFarther(j, i) == num[j] * sq[i] <= num[i] * sq[j]
        IN (CHOOSE j \in 1..k :
                /\ \A i \in 1..k : NoFarther(j, i)
                /\ \A i \in 1..(j - 1) : ~NoFarther(i, j)) - 1]

\* The update step: each centre becomes the mean of the rows assigned to it;
\* a centre with no row keeps its place.
Update(labels, centres) ==
    [j \in 1..Len(centres) |->
        LET members == {r \in DOMAIN labels : labels[r] = j - 1}
        IN IF members = {} THEN centres[j] ELSE members]

\* Lloyd's iteration from the given centres until the labels stop changing.
RECURSIVE Lloyd(_, _, _, _, _)
Lloyd(d, feats, w, centres, labels) ==
    LET next == Update(labels, centres)
        relabel == Assign(d, feats, w, next)
    IN IF relabel = labels
       THEN [labels |-> labels, centres |-> next]
       ELSE Lloyd(d, feats, w, next, relabel)

\* The inertia: the sum over the rows of the squared distance to the centre
\* of the row's label, as the fraction num / den.
Inertia(d, feats, w, fit) ==
    LET k == Len(fit.centres)
        sq == [j \in 1..k |->
                Cardinality(fit.centres[j]) * Cardinality(fit.centres[j])]
    IN [num |-> d.nrows * d.nrows *
                SumOver([r \in 1..d.nrows |->
                    DistNum(d, feats, w, r, fit.centres[fit.labels[r] + 1])
                        * ProdOver(sq, (1..k) \ {fit.labels[r] + 1})], 1..d.nrows),
        den |-> ProdOver(sq, 1..k) * ProdOver(w, feats)]

\* The initial centres KMeans may draw: k distinct rows, in row order.
InitialCentres(d, k) ==
    {[j \in 1..k |-> {SortedSeq(S)[j]}] :
        S \in {T \in SUBSET (1..d.nrows) : Cardinality(T) = k}}

\* KMeans(n_clusters=k).fit_predict on the scaled features from the initial
\* centres init: the labels, the k centres (each one the set of rows whose
\* mean it is) and the inertia.
KMeansFit(d, feats, init) ==
    LET w == Weight(d, feats)
        fit == Lloyd(d, feats, w, init, Assign(d, feats, w, init))
    IN [labels |-> fit.labels,
        cluster_centers |-> fit.centres,
        inertia |-> Inertia(d, feats, w, fit)]

\* perform_clustering raises ValueError when there is no numeric column or
\* no row (StandardScaler) and when there are fewer rows than clusters
\* (KMeans).
ClusteringRaises(d, k) ==
    NumericCols(d) = {} \/ d.nrows = 0 \/ d.nrows < k

\* self.df['cluster'] = labels: the column is added, or replaced if present.
SetClusterColumn(d, labels) ==
    LET cells == [r \in 1..d.nrows |-> Num(labels[r])]
    IN IF HasCol(d, "cluster")
       THEN LET j == ColIndex(d, "cluster")
            IN [d EXCEPT !.dtypes[j] = "int32", !.data[j] = cells]
       ELSE [d EXCEPT !.cols = Append(@, "cluster"),
                      !.dtypes = Append(@, "int32"),
                      !.data = Append(@, cells)]

----------------------------------------------------------------------------
\* generate_narrative

Fallback == <<"An error occurred while generating the narrative.">>

Whitespace == {" ", "\n"}

\* str.strip() of a text held as a sequence of characters and words
RECURSIVE LStrip(_)
LStrip(t) ==
    IF Len(t) > 0 /\ Head(t) \in Whitespace THEN LStrip(Tail(t)) ELSE t

RECURSIVE RStrip(_)
RStrip(t) ==
    IF Len(t) > 0 /\ t[Len(t)] \in Whitespace
    THEN RStrip(SubSeq(t, 1, Len(t) - 1))
    ELSE t

Strip(t) == RStrip(LStrip(t))

\* What one call of openai.ChatCompletion.create can do: answer with a text,
\* raise (network error, non-2xx response, timeout), or answer with a
\* response that lacks the nested text field.
ServiceOutcomes ==
    {[kind |-> "ok", content |-> <<" ", "findings", "\n">>],
     [kind |-> "error", content |-> <<>>],
     [kind |-> "malformed", content |-> <<>>]}

\* A body whose except clause catches the service's errors only: a response
\* without the text field raises out of the body.
NarrativeBodyNarrowExcept(outcome) ==
    CASE outcome.kind = "ok" -> [raised |-> FALSE, value |-> Strip(outcome.content)]
      [] outcome.kind = "error" -> [raised |-> FALSE, value |-> Fallback]
      [] OTHER -> [raised |-> TRUE, value |-> <<>>]

\* The body of generate_narrative for one outcome of the service call: the
\* try returns the stripped text, and the except catches every Exception and
\* returns the fallback sentence.
NarrativeBody(outcome) ==
    IF outcome.kind = "ok"
    THEN [raised |-> FALSE, value |-> Strip(outcome.content)]
    ELSE [raised |-> FALSE, value |-> Fallback]

----------------------------------------------------------------------------
\* save_results

\* The headings of README.md in the order save_results writes them.
SectionTitles ==
    <<"Automated Dataset Analysis", "Overview", "Dataset Summary",
      "Data Preprocessing", "Clustering Analysis", "Visualizations",
      "Narrative Summary", "Conclusion">>

\* The text written under each heading: what it embeds of the arguments.
Section(j, s, results, text) ==
    [title |-> SectionTitles[j],
     rows |-> IF j = 3 THEN s.total_rows ELSE 0,
     inertia |-> IF j = 5 THEN results.inertia ELSE [num |-> 0, den |-> 1],
     narrative |-> IF j = 7 THEN text ELSE <<>>]

\* The document after the first m sections have been written.
Document(m, s, results, text) ==
    [j \in 1..m |-> Section(j, s, results, text)]

\* Where save_results can fail: os.makedirs, open, or the write of section j.
IoOutcomes ==
    {[at |-> "none", j |-> 0], [at |-> "makedirs", j |-> 0],
     [at |-> "open", j |-> 0]}
        \cup {[at |-> "write", j |-> j] : j \in 1..Len(SectionTitles)}

----------------------------------------------------------------------------
NoError == [type |-> "", stage |-> ""]

Raise(type, stage) ==
    /\ pc' = "raised"
    /\ err' = [type |-> type, stage |-> stage]

Return(stage, next) ==
    /\ pc' = next
    /\ executed' = Append(executed, stage)
    /\ err' = err

Init ==
    /\ pc = "startup"
    /\ executed = <<>>
    /\ err = NoError
    /\ networkCalls = 0
    /\ serviceCalls = 0
    /\ serviceFailures = 0
    /\ encoding = ""
    /\ df = NoDf
    /\ ingested = NoDf
    /\ api_token = ""
    /\ summary = <<>>
    /\ clustering_results = <<>>
    /\ narrative = <<>>
    /\ readme = <<>>
    /\ saveLog = ""

\* Module level: load_dotenv, then the reachability probe requests.get(proxy_url),
\* whose failure is caught and printed.
ModuleStartup ==
    /\ pc = "startup"
    /\ \E probe \in {"reachable", "unreachable"} :
        networkCalls' = networkCalls + 1
    /\ Return("startup", "detect_encoding")
    /\ UNCHANGED <<serviceCalls, serviceFailures, encoding, df, ingested,
                   api_token, summary, clustering_results, narrative, readme,
                   saveLog>>

\* detect_encoding: open() raises when the file cannot be opened; chardet
\* reports an encoding or None, and None is replaced by 'utf-8'.
DetectEncoding ==
    /\ pc = "detect_encoding"
    /\ \E opens \in BOOLEAN, detected \in {"", "utf-8"} :
        IF ~opens
        THEN /\ Raise("OSError", "detect_encoding")
             /\ UNCHANGED <<executed, encoding>>
        ELSE /\ encoding' = (IF detected = "" THEN "utf-8" ELSE detected)
             /\ Return("detect_encoding", "load_dataset")
    /\ UNCHANGED <<networkCalls, serviceCalls, serviceFailures, df, ingested,
                   api_token, summary, clustering_results, narrative, readme,
                   saveLog>>

\* load_dataset: read_csv raises on a file with no columns (EmptyDataError)
\* or bytes the encoding cannot decode, and the handler re-raises ValueError;
\* otherwise the table is returned, whatever its number of rows.
LoadDataset ==
    /\ pc = "load_dataset"
    /\ \/ /\ \E e \in {"EmptyDataError", "UnicodeDecodeError"} :
                Raise("ValueError", "load_dataset")
          /\ UNCHANGED <<executed, df, ingested>>
       \/ /\ \E t \in Tables :
                /\ df' = t
                /\ ingested' = t
          /\ Return("load_dataset", "preprocess_data")
    /\ UNCHANGED <<networkCalls, serviceCalls, serviceFailures, encoding,
                   api_token, summary, clustering_results, narrative, readme,
                   saveLog>>

\* preprocess_data, called from __init__
PreprocessData ==
    /\ pc = "preprocess_data"
    /\ \E r \in {preprocess_data(df)} :
          /\ df' = r.df
          /\ IF r.raised
             THEN /\ Raise("ValueError", "preprocess_data")
                  /\ UNCHANGED executed
             ELSE Return("preprocess_data", "get_api_token")
    /\ UNCHANGED <<networkCalls, serviceCalls, serviceFailures, encoding,
                   ingested, api_token, summary, clustering_results, narrative,
                   readme, saveLog>>

\* get_api_token, called from __init__: os.getenv gives None or the value,
\* and an unset or empty token raises EnvironmentError.
GetApiToken ==
    /\ pc = "get_api_token"
    /\ \E token \in {"", "token"} :
        IF token = ""
        THEN /\ Raise("EnvironmentError", "get_api_token")
             /\ UNCHANGED <<executed, api_token>>
        ELSE /\ api_token' = token
             /\ Return("get_api_token", "get_data_summary")
    /\ UNCHANGED <<networkCalls, serviceCalls, serviceFailures, encoding, df,
                   ingested, summary, clustering_results, narrative, readme,
                   saveLog>>

\* run_analysis: summary = self.get_data_summary()
GetDataSummary ==
    /\ pc = "get_data_summary"
    /\ summary' = get_data_summary(df)
    /\ Return("get_data_summary", "perform_clustering")
    /\ UNCHANGED <<networkCalls, serviceCalls, serviceFailures, encoding, df,
                   ingested, api_token, clustering_results, narrative, readme,
                   saveLog>>

\* run_analysis: clustering_results = self.perform_clustering()
PerformClustering ==
    /\ pc = "perform_clustering"
    /\ IF ClusteringRaises(df, DefaultK)
       THEN /\ Raise("ValueError", "perform_clustering")
            /\ UNCHANGED <<executed, df, clustering_results>>
       ELSE /\ \E init \in InitialCentres(df, DefaultK) :
                \E fit \in {KMeansFit(df, NumericCols(df), init)} :
                   /\ df' = SetClusterColumn(df, fit.labels)
                   /\ clustering_results' =
                        [cluster_centers |-> fit.cluster_centers,
                         inertia |-> fit.inertia]
            /\ Return("perform_clustering", "generate_narrative")
    /\ UNCHANGED <<networkCalls, serviceCalls, serviceFailures, encoding,
                   ingested, api_token, summary, narrative, readme, saveLog>>

\* run_analysis: narrative = self.generate_narrative(...), one attempt of
\* the tenacity wrapper: the body is called; if it raised, the wrapper calls
\* it again unless this was attempt StopAfterAttempt, after which it raises
\* RetryError; if it returned, the wrapper returns its value.
GenerateNarrative ==
    /\ pc = "generate_narrative"
    /\ \E outcome \in ServiceOutcomes :
        LET r == NarrativeBody(outcome)
            attempt == serviceCalls + 1
        IN /\ serviceCalls' = attempt
           /\ networkCalls' = networkCalls + 1
           /\ serviceFailures' =
                serviceFailures + (IF outcome.kind = "ok" THEN 0 ELSE 1)
           /\ IF r.raised
              THEN /\ UNCHANGED <<executed, narrative>>
                   /\ IF attempt >= StopAfterAttempt
                      THEN Raise("RetryError", "generate_narrative")
                      ELSE UNCHANGED <<pc, err>>
              ELSE /\ narrative' = r.value
                   /\ Return("generate_narrative", "save_results")
    /\ UNCHANGED <<encoding, df, ingested, api_token, summary,
                   clustering_results, readme, saveLog>>

\* run_analysis: self.save_results(...).  os.makedirs is outside the try, so
\* its failure leaves save_results; a failure of open or of a write is
\* caught and printed, and what was written before it stays in the file.
SaveResults ==
    /\ pc = "save_results"
    /\ \E io \in IoOutcomes :
        CASE io.at = "makedirs" ->
                /\ Raise("OSError", "save_results")
                /\ UNCHANGED <<executed, readme, saveLog>>
          [] io.at = "open" ->
                /\ saveLog' = "Error saving results"
                /\ Return("save_results", "done")
                /\ UNCHANGED readme
          [] io.at = "write" ->
                /\ readme' = Document(io.j - 1, summary, clustering_results,
                                      narrative)
                /\ saveLog' = "Error saving results"
                /\ Return("save_results", "done")
          [] OTHER ->
                /\ readme' = Document(Len(SectionTitles), summary,
                                      clustering_results, narrative)
                /\ saveLog' = "Analysis results saved successfully."
                /\ Return("save_results", "done")
    /\ UNCHANGED <<networkCalls, serviceCalls, serviceFailures, encoding, df,
                   ingested, api_token, summary, clustering_results, narrative>>

Next ==
    \/ ModuleStartup
    \/ DetectEncoding
    \/ LoadDataset
    \/ PreprocessData
    \/ GetApiToken
    \/ GetDataSummary
    \/ PerformClustering
    \/ GenerateNarrative
    \/ SaveResults

Spec == Init /\ [][Next]_vars

----------------------------------------------------------------------------
\* Properties

HasRun(stage) == \E i \in 1..Len(executed) : executed[i] = stage

RaisedIn(stage) == pc = "raised" /\ err.stage = stage

SavedLine == "Analysis results saved successfully."

\* The document is complete: every section, in order, through Conclusion,
\* with the given narrative under Narrative Summary.
CompleteDocument(doc, text) ==
    /\ Len(doc) = Len(SectionTitles)
    /\ \A j \in 1..Len(SectionTitles) : doc[j].title = SectionTitles[j]
    /\ doc[7].narrative = text

\* C1: when every call of the text-generation service fails, one invocation
\* of generate_narrative makes exactly 3 service calls, then returns the
\* fallback sentence, and does not raise.
C1_ThreeAttemptsThenFallback ==
    /\ ~RaisedIn("generate_narrative")
    /\ (HasRun("generate_narrative") /\ serviceFailures = serviceCalls)
        => (serviceCalls = StopAfterAttempt /\ narrative = Fallback)

\* C2: whatever the service call does, run_analysis does not end in
\* generate_narrative; when every call failed the narrative is the fallback
\* sentence; save_results is invoked next, and when its writes go through it
\* writes the complete document, all sections through Conclusion, holding
\* that narrative.
C2_NarrativeFailureNeverAborts ==
    /\ ~RaisedIn("generate_narrative")
    /\ (HasRun("generate_narrative") /\ serviceFailures = serviceCalls)
        => narrative = Fallback
    /\ HasRun("generate_narrative")
        => (pc = "save_results" \/ HasRun("save_results")
                \/ RaisedIn("save_results"))
    /\ (HasRun("save_results") /\ saveLog = SavedLine)
        => CompleteDocument(readme, narrative)

\* C2 witness: the service failed, and the run ended with the complete
\* document holding the fallback sentence.
C2_Witness ==
    /\ pc = "done"
    /\ serviceCalls > 0
    /\ serviceFailures = serviceCalls
    /\ narrative = Fallback
    /\ CompleteDocument(readme, Fallback)

\* C3: for an input table with rows and no numeric column the run ends with
\* the clustering error, raised by perform_clustering, and no outbound
\* request has been made when it is raised.
C3_ClusteringErrorBeforeNetwork ==
    (HasRun("load_dataset") /\ ingested.nrows > 0 /\ NumericCols(ingested) = {}
            /\ pc \in {"raised", "done"})
        => (RaisedIn("perform_clustering") /\ networkCalls = 0)

\* C4: when the missing-credential error is raised, no analysis step has
\* run: neither ingestion nor preprocessing nor summary nor clustering.
C4_TokenCheckedBeforeAnalysis ==
    RaisedIn("get_api_token")
        => /\ ~HasRun("detect_encoding")
           /\ ~HasRun("load_dataset")
           /\ ~HasRun("preprocess_data")
           /\ ~HasRun("get_data_summary")
           /\ ~HasRun("perform_clustering")

\* C5: ingestion fails, and the run stops before preprocessing, when the
\* file cannot be opened and when zero rows result after parsing: a table
\* that load_dataset returns has at least one row, and preprocessing is not
\* reached without one.
C5_IngestionRejectsZeroRows ==
    /\ (RaisedIn("detect_encoding") \/ RaisedIn("load_dataset"))
        => (df = NoDf /\ ~HasRun("preprocess_data"))
    /\ HasRun("load_dataset") => ingested.nrows > 0
    /\ pc = "preprocess_data" => df.nrows > 0

\* The input is a valid non-empty table with at least one numeric column.
ValidInput == ingested.nrows > 0 /\ NumericCols(ingested) # {}

\* A cell of the CSV file that is missing or, in a date column, unparseable.
Unreadable(c) == c.k = "nan" \/ (c.k = "str" /\ c.s \notin ParseableDates)

\* C6 as stated: for every valid non-empty input table with at least one
\* numeric column, the Summary has a missing_values count of zero for every
\* column.
C6_NoMissingAfterPreprocessing ==
    (HasRun("get_data_summary") /\ ValidInput)
        => \A c \in ColSet(ingested) : summary.missing_values[c] = 0

\* C6 as amended: for every valid non-empty input table with at least one
\* numeric column, the Summary has a missing_values count of zero for every
\* column other than "date", and for "date" the count is the number of its
\* entries that were missing or unparseable.
C6_NoMissingExceptDate ==
    (HasRun("get_data_summary") /\ ValidInput)
        => /\ DOMAIN summary.missing_values = ColSet(ingested)
           /\ \A c \in ColSet(ingested) :
                LET cells == ingested.data[ColIndex(ingested, c)]
                IN summary.missing_values[c] =
                    IF c = "date"
                    THEN Cardinality({r \in 1..ingested.nrows : Unreadable(cells[r])})
                    ELSE 0

\* C6 witness: a Summary of a table whose date column had an unparseable
\* entry and whose numeric column had a missing cell.
C6_Witness ==
    /\ HasRun("get_data_summary")
    /\ ValidInput
    /\ HasCol(ingested, "date")
    /\ HasCol(ingested, "val")
    /\ \E r \in 1..ingested.nrows :
            ingested.data[ColIndex(ingested, "date")][r] = Str("n/a")
    /\ \E r \in 1..ingested.nrows :
            ingested.data[ColIndex(ingested, "val")][r] = NaN
    /\ summary.missing_values["date"] > 0
    /\ summary.missing_values["val"] = 0

\* C7: preprocess_data is idempotent: applied to a table it has produced,
\* it raises nothing and leaves every cell, the columns and the row count
\* unchanged.
C7_PreprocessIdempotent ==
    HasRun("preprocess_data")
        => LET again == preprocess_data(df)
           IN /\ ~again.raised
              /\ again.df.cols = df.cols
              /\ again.df.nrows = df.nrows
              /\ again.df.data = df.data

\* C7 witness: preprocess_data has just changed a table with a parseable and
\* an unparseable date and a missing number.
C7_Witness ==
    /\ pc = "get_api_token"
    /\ HasCol(ingested, "date")
    /\ HasCol(ingested, "val")
    /\ \E r \in 1..ingested.nrows :
            ingested.data[ColIndex(ingested, "date")][r] = Str("n/a")
    /\ \E r \in 1..ingested.nrows :
            ingested.data[ColIndex(ingested, "date")][r] = Str("2021-01-01")
    /\ \E r \in 1..ingested.nrows :
            ingested.data[ColIndex(ingested, "val")][r] = NaN
    /\ df.data # ingested.data

\* C8: for every clean table with at least one numeric column, also one
\* with fewer than k rows, perform_clustering(k) returns exactly k centres,
\* labels every row in [0, k) and reports an inertia >= 0.
C8_ClusteringReturnsKCentres ==
    (HasRun("get_data_summary") /\ NumericCols(df) # {}
            /\ pc # "perform_clustering")
        => /\ HasRun("perform_clustering")
           /\ Len(clustering_results.cluster_centers) = DefaultK
           /\ HasCol(df, "cluster")
           /\ \A r \in 1..df.nrows :
                df.data[ColIndex(df, "cluster")][r].n \in 0..(DefaultK - 1)
           /\ clustering_results.inertia.num >= 0
           /\ clustering_results.inertia.den > 0

\* C9: once the Summary has been produced, the keys of column_types and of
\* missing_values are the columns of the pipeline's table, and the table has
\* the row count and column count it had when ingestion completed.
C9_SummaryKeysAreTableColumns ==
    HasRun("get_data_summary")
        => /\ DOMAIN summary.column_types = ColSet(df)
           /\ DOMAIN summary.missing_values = ColSet(df)
           /\ df.nrows = ingested.nrows
           /\ Len(df.cols) = Len(ingested.cols)

\* C10: no failure during save_results (creating the folder, opening
\* README.md, a write) propagates out of save_results.
C10_SaveResultsNeverRaises == ~RaisedIn("save_results")
====
